---- MODULE Spec2Model ----
(***************************************************************************)
(* A model of web/src/app/util/RequireConfig.tsx (the config context, its  *)
(* typed accessors and the RequireConfig gate) and of the link-to-mobile   *)
(* dialog (LinkToMobile).                                                  *)
(*                                                                         *)
(* Raw config strings are sequences of one-character strings, so that      *)
(* parseInt, split and the comparison with 'true' are computed, not        *)
(* assumed.  JavaScript values are tagged records.                         *)
(***************************************************************************)
EXTENDS Integers, Sequences, FiniteSets, TLC

VARIABLES
    \* ---- RequireConfig.tsx ----
    server,     \* the response the GraphQL endpoint gives to the user/config query
    props,      \* the props of the mounted RequireConfig
    fetch,      \* "loading" | "done" | "error": the state of useQuery(query)
    data,       \* useQuery(query).data
    ctx,        \* the value ConfigProvider hands to ConfigContext.Provider
    conf,       \* what useConfig() gives the consumer (or that it threw)
    session,    \* what useSessionInfo() gives the consumer
    view,       \* what RequireConfig(props) returns (or that it threw)
    \* ---- LinkToMobile ----
    showDialog, \* useState(false)
    index,      \* useState(0)
    mutation,   \* createAuthLinkStatus: [loading, data]
    qdata,      \* useQuery(authLinkStatus).data
    issued,     \* the options the status query was last rendered with: [skip, id]
    calls       \* number of createAuthLink() invocations so far

cfgVars == <<server, props, fetch, data, ctx, conf, session, view>>
linkVars == <<showDialog, index, mutation, qdata, issued, calls>>
vars == <<server, props, fetch, data, ctx, conf, session, view,
          showDialog, index, mutation, qdata, issued, calls>>

----------------------------------------------------------------------------
\* Bounds of the model.

\* longest raw config string of the one-entry configs
MaxLen == 4
\* most entries of a fetched config with several entries
MaxConfig == 2
\* most createAuthLink() calls followed
MaxCalls == 3
\* largest view index a swipe may ask for
MaxIndex == 3

----------------------------------------------------------------------------
\* JavaScript values.

Undefined == [k |-> "undefined"]
Null == [k |-> "null"]
NaN == [k |-> "nan"]
Bool(b) == [k |-> "bool", b |-> b]
Num(n) == [k |-> "num", n |-> n]
Str(s) == [k |-> "str", s |-> s]
List(l) == [k |-> "list", l |-> l]

\* The characters raw strings are made of.
Chars == {"t", "r", "u", "e", "0", "1", "-", "\n"}

Strings(n) == UNION {[1..k -> Chars] : k \in 0..n}

TrueStr == <<"t", "r", "u", "e">>

----------------------------------------------------------------------------
\* parseInt(value, 10), RequireConfig.tsx line 58.

IsWhiteSpace(c) == c \in {" ", "\t", "\n", "\r"}

IsDigit(c) == c \in {"0", "1", "2", "3", "4", "5", "6", "7", "8", "9"}

DigitVal(c) ==
    CASE c = "0" -> 0 [] c = "1" -> 1 [] c = "2" -> 2 [] c = "3" -> 3
      [] c = "4" -> 4 [] c = "5" -> 5 [] c = "6" -> 6 [] c = "7" -> 7
      [] c = "8" -> 8 [] c = "9" -> 9

RECURSIVE TrimStart(_)
TrimStart(s) ==
    IF s # <<>> /\ IsWhiteSpace(Head(s)) THEN TrimStart(Tail(s)) ELSE s

\* the digits read left to right, stopping at the first non-digit
RECURSIVE ReadDigits(_, _)
ReadDigits(s, acc) ==
    IF s # <<>> /\ IsDigit(Head(s))
    THEN ReadDigits(Tail(s), acc * 10 + DigitVal(Head(s)))
    ELSE acc

parseInt(value) ==
    LET t == TrimStart(value)
        signed == t # <<>> /\ Head(t) \in {"-", "+"}
        sign == IF t # <<>> /\ Head(t) = "-" THEN -1 ELSE 1
        body == IF signed THEN Tail(t) ELSE t
    IN  IF body = <<>> \/ ~IsDigit(Head(body))
        THEN NaN
        ELSE Num(sign * ReadDigits(body, 0))

\* value.split('\n'), line 63: cur is the piece being read.
RECURSIVE split(_, _)
split(s, cur) ==
    IF s = <<>> THEN <<cur>>
    ELSE IF Head(s) = "\n" THEN <<cur>> \o split(Tail(s), <<>>)
    ELSE split(Tail(s), Append(cur, Head(s)))

----------------------------------------------------------------------------
\* parseValue, lines 52-67.  A call either returns a value or throws.

Return(v) == [threw |-> FALSE, val |-> v]
Throw(e) == [threw |-> TRUE, error |-> e]

\* parseValue with Boolean(value) for value === 'true'.
parseValueTruthy(type, value) ==
    IF type = "" THEN Return(Null)
    ELSE CASE type = "boolean" -> Return(Bool(value # <<>>))
           [] type = "integer" -> Return(parseInt(value))
           [] type = "string" -> Return(Str(value))
           [] type = "stringList" ->
                IF value = <<>> THEN Return(List(<<>>))
                ELSE Return(List(split(value, <<>>)))
           [] OTHER -> Throw("TypeError")

\* parseValue without the throw after the switch: it falls off the end.
parseValueNoThrow(type, value) ==
    IF type = "" THEN Return(Null)
    ELSE CASE type = "boolean" -> Return(Bool(value = TrueStr))
           [] type = "integer" -> Return(parseInt(value))
           [] type = "string" -> Return(Str(value))
           [] type = "stringList" ->
                IF value = <<>> THEN Return(List(<<>>))
                ELSE Return(List(split(value, <<>>)))
           [] OTHER -> Return(Undefined)

parseValue(type, value) ==
    IF type = "" THEN Return(Null)
    ELSE CASE type = "boolean" -> Return(Bool(value = TrueStr))
           [] type = "integer" -> Return(parseInt(value))
           [] type = "string" -> Return(Str(value))
           [] type = "stringList" ->
                IF value = <<>> THEN Return(List(<<>>))
                ELSE Return(List(split(value, <<>>)))
           [] OTHER -> Throw("TypeError")

\* isTrue without the Array.isArray line: Boolean([]) is true.
isTrueNoArrayCheck(value) ==
    CASE value.k = "list" -> TRUE
      [] value.k = "bool" -> value.b
      [] value.k = "num" -> value.n # 0
      [] value.k = "str" -> value.s # <<>>
      [] OTHER -> FALSE

\* isTrue, lines 69-73.
isTrue(value) ==
    CASE value.k = "list" -> Len(value.l) > 0
      [] value.k = "bool" -> value.b
      [] value.k = "num" -> value.n # 0
      [] value.k = "str" -> value.s # <<>>
      [] OTHER -> FALSE

\* data[id] = v on a ConfigData object.
Put(d, id, v) == [x \in (DOMAIN d) \cup {id} |-> IF x = id THEN v ELSE d[x]]

\* config[id]: undefined for a key the object does not have.
Get(d, id) == IF id \in DOMAIN d THEN d[id] ELSE Undefined

\* mapConfig, lines 75-81: the forEach, which a throwing parseValue leaves.
RECURSIVE forEachEntry(_, _)
forEachEntry(vs, d) ==
    IF vs = <<>> THEN [threw |-> FALSE, data |-> d]
    ELSE LET r == parseValue(Head(vs).type, Head(vs).value)
         IN  IF r.threw THEN [threw |-> TRUE, error |-> r.error]
             ELSE forEachEntry(Tail(vs), Put(d, Head(vs).id, r.val))

mapConfig(value) == forEachEntry(value, <<>>)

----------------------------------------------------------------------------
\* The context and the hooks.

NoData == [k |-> "none"]
NoUser == [k |-> "null"]
User(id, role) == [k |-> "user", id |-> id, role |-> role]
ID(id) == [k |-> "id", id |-> id]

\* React.createContext's default value, lines 11-15.
ConfigContext == [config |-> <<>>, isAdmin |-> FALSE, userID |-> Null]

\* ConfigProvider without the || null of userID.
ConfigProviderNoFallback(d) ==
    [config |-> IF d.k = "data" THEN d.config ELSE <<>>,
     isAdmin |-> d.k = "data" /\ d.user.k = "user" /\ d.user.role = "admin",
     userID |-> IF d.k = "data" /\ d.user.k = "user" /\ d.user.id # ""
                THEN ID(d.user.id) ELSE Undefined]

\* ConfigProvider, lines 36-50: the value handed to the provider for useQuery's data d.
ConfigProvider(d) ==
    [config |-> IF d.k = "data" THEN d.config ELSE <<>>,
     isAdmin |-> d.k = "data" /\ d.user.k = "user" /\ d.user.role = "admin",
     userID |-> IF d.k = "data" /\ d.user.k = "user" /\ d.user.id # ""
                THEN ID(d.user.id) ELSE Null]

\* useSessionInfo, lines 93-101.
useSessionInfo(c) ==
    [isAdmin |-> c.isAdmin,
     userID |-> c.userID,
     ready |-> c.userID.k = "id" /\ c.userID.id # ""]

\* useConfig, lines 111-113.
useConfig(c) == mapConfig(c.config)

\* The test prop of RequireConfig: isTrue when the prop is not given (line 149),
\* otherwise the caller's function, here (x) => x === null.
Test(t, v) == IF t = "default" THEN isTrue(v) ELSE v.k = "null"

\* else: elseValue = null, line 152.
ElseValue(p) == IF p.else = "unset" THEN "null" ELSE p.else

\* RequireConfig with its two checks in the other order.
RequireConfigConfigFirst(p, c) ==
    LET config == useConfig(c)
        isAdmin == useSessionInfo(c).isAdmin
    IN  IF config.threw THEN [out |-> "threw", testCalled |-> FALSE]
        ELSE IF p.configID # "" /\ ~Test(p.test, Get(config.data, p.configID))
        THEN [out |-> ElseValue(p), testCalled |-> TRUE]
        ELSE IF p.isAdmin /\ ~isAdmin
        THEN [out |-> ElseValue(p), testCalled |-> p.configID # ""]
        ELSE [out |-> "children", testCalled |-> p.configID # ""]

\* RequireConfig, lines 144-165.  useConfig() runs first and its throw leaves
\* the component; testCalled records whether test was applied.
RequireConfig(p, c) ==
    LET config == useConfig(c)
        isAdmin == useSessionInfo(c).isAdmin
    IN  IF config.threw THEN [out |-> "threw", testCalled |-> FALSE]
        ELSE IF p.isAdmin /\ ~isAdmin
        THEN [out |-> ElseValue(p), testCalled |-> FALSE]
        ELSE IF p.configID # "" /\ ~Test(p.test, Get(config.data, p.configID))
        THEN [out |-> ElseValue(p), testCalled |-> TRUE]
        ELSE [out |-> "children", testCalled |-> p.configID # ""]

----------------------------------------------------------------------------
\* The inputs: what the endpoint answers and what is mounted.

Types == {"boolean", "integer", "string", "stringList", "", "duration"}
KnownTypes == {"boolean", "integer", "string", "stringList"}

Entry(id, type, value) == [id |-> id, type |-> type, value |-> value]

Users == {NoUser, User("u1", "admin"), User("u1", "user")}

Response(user, config) == [k |-> "data", user |-> user, config |-> config]

\* One-entry configs over every raw string up to MaxLen.
WideEntries == {Entry("A", t, v) : t \in Types, v \in Strings(MaxLen)}
WideResponses == {Response(User("u1", "user"), <<e>>) : e \in WideEntries}
WideProps == [configID |-> "A", test |-> "default", isAdmin |-> FALSE, else |-> "unset"]

\* Configs of up to MaxConfig entries over chosen raw strings of each type.
FalseStr == <<"f", "a", "l", "s", "e">>
DeepEntries ==
    {Entry("A", "boolean", TrueStr), Entry("A", "boolean", FalseStr),
     Entry("A", "integer", <<"0">>), Entry("A", "integer", <<"1", "0">>),
     Entry("A", "integer", <<"e">>),
     Entry("A", "string", <<>>), Entry("A", "string", <<"t">>),
     Entry("A", "stringList", <<>>), Entry("A", "stringList", <<"t", "\n", "e">>),
     Entry("A", "", <<"1">>), Entry("A", "duration", <<"1">>),
     Entry("B", "boolean", TrueStr), Entry("B", "duration", <<"1">>)}
DeepConfigs == UNION {[1..n -> DeepEntries] : n \in 0..MaxConfig}
DeepResponses == {Response(u, c) : u \in Users, c \in DeepConfigs}
DeepProps == [configID : {"", "A"}, test : {"default", "isNull"},
              isAdmin : BOOLEAN, else : {"unset", "elseNode"}]

----------------------------------------------------------------------------
\* Everything a consumer sees is a function of useQuery's data: a render.
Rendered(d, p) ==
    /\ ctx' = ConfigProvider(d)
    /\ conf' = useConfig(ConfigProvider(d))
    /\ session' = useSessionInfo(ConfigProvider(d))
    /\ view' = RequireConfig(p, ConfigProvider(d))

\* The first render: useQuery is loading and has no data (line 37).
Mounted(s, p) ==
    /\ server = s
    /\ props = p
    /\ fetch = "loading"
    /\ data = NoData
    /\ ctx = ConfigProvider(NoData)
    /\ conf = useConfig(ConfigProvider(NoData))
    /\ session = useSessionInfo(ConfigProvider(NoData))
    /\ view = RequireConfig(p, ConfigProvider(NoData))

\* The query's result arrives: ConfigProvider and its consumers render again.
FetchArrive ==
    /\ fetch = "loading"
    /\ fetch' = "done"
    /\ data' = server
    /\ Rendered(server, props)
    /\ UNCHANGED <<server, props>>
    /\ UNCHANGED linkVars

\* The query fails: useQuery gives no data.
FetchError ==
    /\ fetch = "loading"
    /\ fetch' = "error"
    /\ data' = NoData
    /\ Rendered(NoData, props)
    /\ UNCHANGED <<server, props>>
    /\ UNCHANGED linkVars

----------------------------------------------------------------------------
\* LinkToMobile.

LinkIDs == {"k1", "k2"}
AuthLink(id) == [k |-> "link", id |-> id]
Status(c, v) == [k |-> "status", claimed |-> c, verified |-> v]

\* line 72
loading(m) == m.data.k = "undefined" /\ m.loading

\* line 73: '' when the mutation holds no data
authLinkID(m) == IF m.data.k = "link" THEN m.data.id ELSE ""

\* The options with skip: loading alone.
QueryOptionsLoadingOnly(m) == [id |-> authLinkID(m), skip |-> loading(m)]

\* lines 76-81: the options of the status query
QueryOptions(m) ==
    [id |-> authLinkID(m), skip |-> loading(m) \/ authLinkID(m) = ""]

\* What useQuery gives when the component renders with options now, having
\* rendered with options before and held q: nothing while skipped, nothing
\* yet for a query not issued before, else what it held.
useQueryData(before, now, q) ==
    IF now.skip \/ before.skip \/ before.id # now.id THEN Undefined ELSE q

\* lines 83-84: '' for a missing result, else the flag ("" | "false" | "true")
Flag(b) == IF b THEN "true" ELSE "false"
claimed(q) == IF q.k = "status" THEN Flag(q.claimed) ELSE ""
verified(q) == IF q.k = "status" THEN Flag(q.verified) ELSE ""
Truthy(x) == x = "true"

\* The effect without its if (showDialog).
CreateAuthLinkRunsOnChange(prev, cur) == prev # cur

\* lines 88-92: the effect on [showDialog] runs when showDialog changed, and
\* calls createAuthLink() when the dialog is shown.
CreateAuthLinkRuns(prev, cur) == prev # cur /\ cur

\* lines 94-98: the effect on [claimed]
ClaimedEffect(idx, prev, cur) == IF prev # cur /\ Truthy(cur) THEN 1 ELSE idx

\* lines 100-104: the effect on [verified]
VerifiedEffect(idx, prev, cur) == IF prev # cur /\ Truthy(cur) THEN 2 ELSE idx

\* The two effects declared in the other order.
RunEffectsVerifiedFirst(idx, q, q2) ==
    ClaimedEffect(VerifiedEffect(idx, verified(q), verified(q2)),
                  claimed(q), claimed(q2))

\* The effects of one commit run in the order they are declared.
RunEffects(idx, q, q2) ==
    VerifiedEffect(ClaimedEffect(idx, claimed(q), claimed(q2)),
                   verified(q), verified(q2))

\* lines 106-125
slideRenderer(i) ==
    CASE i = 0 -> "ClaimCodeDisplay"
      [] i = 1 -> "VerifyCodeFields"
      [] i = 2 -> "Success"
      [] i = 3 -> "Retry"
      [] OTHER -> "null"

\* The render after an event that left the status query holding q and the index
\* at idx: the query's options follow the mutation status, then the effects run.
Commit(q, idx) ==
    /\ issued' = QueryOptions(mutation')
    /\ qdata' = useQueryData(issued, issued', q)
    /\ index' = RunEffects(idx, qdata, qdata')

\* createAuthLink(): the mutation is in flight.  The status may or may not keep
\* the previous result while loading (line 72 allows for both).
CreateAuthLink ==
    /\ calls' = calls + 1
    /\ \E keep \in BOOLEAN :
         mutation' = [loading |-> TRUE,
                      data |-> IF keep THEN mutation.data ELSE Undefined]

\* setShowDialog(v) of a dialog that goes back to the first view when opened.
SetShowDialogResetsIndex(v) ==
    /\ showDialog' = v
    /\ IF CreateAuthLinkRuns(showDialog, v)
       THEN CreateAuthLink
       ELSE UNCHANGED <<mutation, calls>>
    /\ Commit(qdata, IF v THEN 0 ELSE index)

\* setShowDialog(v), then the render and the effect on [showDialog].
SetShowDialog(v) ==
    /\ showDialog' = v
    /\ IF CreateAuthLinkRuns(showDialog, v)
       THEN CreateAuthLink
       ELSE UNCHANGED <<mutation, calls>>
    /\ Commit(qdata, index)

\* The Link to Mobile button, line 133.
ClickLinkToMobile ==
    /\ showDialog \/ calls < MaxCalls
    /\ SetShowDialog(TRUE)
    /\ UNCHANGED cfgVars

\* The Cancel button, line 161.
ClickCancel ==
    /\ showDialog
    /\ SetShowDialog(FALSE)
    /\ UNCHANGED cfgVars

\* The dialog's onClose, line 144.
DialogOnClose ==
    /\ showDialog
    /\ SetShowDialog(FALSE)
    /\ UNCHANGED cfgVars

\* onChangeIndex of the views, line 154; they are rendered in the open dialog
\* when the mutation is not loading (lines 147-157).
ChangeIndex(i) ==
    /\ showDialog
    /\ ~loading(mutation)
    /\ UNCHANGED <<showDialog, mutation, calls>>
    /\ Commit(qdata, i)
    /\ UNCHANGED cfgVars

\* The createAuthLink mutation returns an auth link.
MutationDone(id) ==
    /\ mutation.loading
    /\ mutation' = [loading |-> FALSE, data |-> AuthLink(id)]
    /\ UNCHANGED <<showDialog, calls>>
    /\ Commit(qdata, index)
    /\ UNCHANGED cfgVars

\* The createAuthLink mutation fails.
MutationError ==
    /\ mutation.loading
    /\ mutation' = [loading |-> FALSE, data |-> Undefined]
    /\ UNCHANGED <<showDialog, calls>>
    /\ Commit(qdata, index)
    /\ UNCHANGED cfgVars

\* A result of the status query arrives.
StatusArrive(c, v) ==
    /\ ~issued.skip
    /\ UNCHANGED <<showDialog, mutation, calls>>
    /\ issued' = QueryOptions(mutation)
    /\ qdata' = Status(c, v)
    /\ index' = RunEffects(index, qdata, Status(c, v))
    /\ UNCHANGED cfgVars

\* The first render of LinkToMobile.
LinkInit ==
    /\ showDialog = FALSE
    /\ index = 0
    /\ mutation = [loading |-> FALSE, data |-> Undefined]
    /\ qdata = Undefined
    /\ issued = QueryOptions([loading |-> FALSE, data |-> Undefined])
    /\ calls = 0

----------------------------------------------------------------------------
\* Specifications.

InitWide == LinkInit /\ \E s \in WideResponses : Mounted(s, WideProps)

InitDeep == LinkInit /\ \E s \in DeepResponses : \E p \in DeepProps : Mounted(s, p)

Init == InitWide \/ InitDeep

Next ==
    \/ FetchArrive
    \/ FetchError

\* RequireConfig.tsx over both families of configs.
Spec == Init /\ [][Next]_vars

\* RequireConfig.tsx over the configs of several entries.
SpecConfig == InitDeep /\ [][Next]_vars

LinkNext ==
    \/ ClickLinkToMobile
    \/ ClickCancel
    \/ DialogOnClose
    \/ \E i \in 0..MaxIndex : ChangeIndex(i)
    \/ \E id \in LinkIDs : MutationDone(id)
    \/ MutationError
    \/ \E c \in BOOLEAN : \E v \in BOOLEAN : StatusArrive(c, v)

\* LinkToMobile, beside a config part that stays as mounted.
InitLink == LinkInit /\ Mounted(Response(NoUser, <<>>), WideProps)

SpecLink == InitLink /\ [][LinkNext]_vars

----------------------------------------------------------------------------
\* What the claims about RequireConfig.tsx speak of, stated on the raw strings.

\* the number of white-space characters v starts with
LeadingWhite(v) ==
    Cardinality({i \in 1..Len(v) : \A j \in 1..i : IsWhiteSpace(v[j])})

\* the length of the run of digits of v that starts at position from
DigitRun(v, from) ==
    Cardinality({i \in from..Len(v) : \A j \in from..i : IsDigit(v[j])})

RECURSIVE Pow10(_)
Pow10(n) == IF n = 0 THEN 1 ELSE 10 * Pow10(n - 1)

\* the number the n digits of v from position from denote, by place value
RECURSIVE PlaceValue(_, _, _)
PlaceValue(v, from, n) ==
    IF n = 0 THEN 0
    ELSE DigitVal(v[from]) * Pow10(n - 1) + PlaceValue(v, from + 1, n - 1)

\* The base-10 integer v denotes: optional white space, an optional sign, then
\* the longest run of digits; NaN when that run is empty.
Base10(v) ==
    LET w == LeadingWhite(v)
        signed == w < Len(v) /\ v[w + 1] \in {"-", "+"}
        from == IF signed THEN w + 2 ELSE w + 1
        n == DigitRun(v, from)
    IN  IF n = 0 THEN NaN
        ELSE IF signed /\ v[w + 1] = "-" THEN Num(0 - PlaceValue(v, from, n))
        ELSE Num(PlaceValue(v, from, n))

RECURSIVE Join(_)
Join(l) == IF Len(l) = 1 THEN l[1] ELSE l[1] \o <<"\n">> \o Join(Tail(l))

Newlines(v) == Cardinality({i \in 1..Len(v) : v[i] = "\n"})

\* val is v split on newlines: its pieces hold no newline and joined by
\* newlines give v back.
IsSplit(val, v) ==
    /\ val.k = "list"
    /\ Len(val.l) = Newlines(v) + 1
    /\ \A i \in 1..Len(val.l) : \A j \in 1..Len(val.l[i]) : val.l[i][j] # "\n"
    /\ Join(val.l) = v

\* val is what the type tag of entry e says its raw string parses to.
ParsedAs(e, val) ==
    CASE e.type = "boolean" -> val.k = "bool" /\ (val.b <=> e.value = TrueStr)
      [] e.type = "integer" -> val = Base10(e.value)
      [] e.type = "string" -> val.k = "str" /\ val.s = e.value
      [] e.type = "stringList" ->
            IF e.value = <<>> THEN val.k = "list" /\ val.l = <<>>
            ELSE IsSplit(val, e.value)
      [] OTHER -> FALSE

Fetched == ctx.config
FetchedIds == {Fetched[i].id : i \in 1..Len(Fetched)}
Unrecognized(t) == t \notin KnownTypes /\ t # ""
SomeUnrecognized == \E i \in 1..Len(Fetched) : Unrecognized(Fetched[i].type)

\* the last fetched entry with the id
LastOf(id) ==
    Fetched[CHOOSE i \in 1..Len(Fetched) :
               /\ Fetched[i].id = id
               /\ \A j \in (i + 1)..Len(Fetched) : Fetched[j].id # id]

\* C1 as stated: the type tag alone determines the parse (boolean: true exactly
\* for 'true'; integer: the base-10 parse; string: unchanged; stringList: empty
\* for '' and else the split on newlines), and useConfig maps every fetched
\* entry's id to that parsed value.
C1_EveryEntryMapped ==
    \A i \in 1..Len(Fetched) :
        Fetched[i].type \in KnownTypes =>
            /\ ~conf.threw
            /\ Fetched[i].id \in DOMAIN conf.data
            /\ ParsedAs(Fetched[i], conf.data[Fetched[i].id])

\* C1, amended: the type tag alone determines the parse, by the four rules,
\* and a falsy tag parses to null; useConfig maps each fetched id, and no
\* other, to the parsed value of the last fetched entry with that id, unless
\* some fetched entry has an unrecognized tag, and then useConfig throws.
C1_LastEntryMapped ==
    IF SomeUnrecognized THEN conf.threw
    ELSE /\ ~conf.threw
         /\ DOMAIN conf.data = FetchedIds
         /\ \A id \in FetchedIds :
               IF LastOf(id).type = "" THEN conf.data[id] = Null
               ELSE ParsedAs(LastOf(id), conf.data[id])

\* Two entries with one id and different values were fetched and mapped.
C1_Witness ==
    /\ fetch = "done"
    /\ ~conf.threw
    /\ Len(Fetched) = 2
    /\ Fetched[1].id = Fetched[2].id
    /\ Fetched[1].type = "boolean" /\ Fetched[1].value = TrueStr
    /\ Fetched[2].type = "stringList"
    /\ conf.data[Fetched[2].id] = List(<<<<"t">>, <<"e">>>>)

\* C2 as stated: every config value whose type tag is not one of 'boolean',
\* 'integer', 'string', 'stringList' makes parsing raise a TypeError and gives
\* no parsed value.
C2_EveryOtherTagThrows ==
    (\E i \in 1..Len(Fetched) : Fetched[i].type \notin KnownTypes) =>
        conf.threw /\ conf.error = "TypeError"

\* C2, amended: every config value whose type tag is non-empty and not one of
\* the four makes parsing raise a TypeError and gives no parsed value (neither
\* useConfig nor RequireConfig returns); an empty (falsy) tag does not throw
\* and parses to null.
C2_UnrecognizedTagThrows ==
    /\ SomeUnrecognized =>
          /\ conf.threw /\ conf.error = "TypeError"
          /\ "data" \notin DOMAIN conf
          /\ view.out = "threw"
    /\ ~SomeUnrecognized =>
          /\ ~conf.threw
          /\ \A id \in FetchedIds :
                LastOf(id).type = "" => conf.data[id] = Null

\* A config with a tag outside the four was fetched and useConfig threw.
C2_Witness ==
    /\ fetch = "done"
    /\ Len(Fetched) = 1
    /\ Fetched[1].type = "duration"
    /\ conf.threw
    /\ view.out = "threw"

\* C3: while the fetch result is missing (not yet arrived, or failed) the
\* context holds config = [], isAdmin = false, userID = null; useConfig gives
\* an empty object, useSessionInfo gives isAdmin = false, userID = null,
\* ready = false, and no consumer throws.
C3_FallbackWhileMissing ==
    data = NoData =>
        /\ ctx = ConfigContext
        /\ conf = [threw |-> FALSE, data |-> <<>>]
        /\ session = [isAdmin |-> FALSE, userID |-> Null, ready |-> FALSE]
        /\ view.out # "threw"

\* The fetch failed although the endpoint had an admin and a config to give.
C3_Witness ==
    /\ fetch = "error"
    /\ data = NoData
    /\ server.user = User("u1", "admin")
    /\ Len(server.config) = 2
    /\ props.configID = "A"
    /\ view.out = "elseNode"

\* C4 as stated: ready is true if and only if the user/config fetch result has
\* arrived.
C4_ReadyIffArrived == session.ready <=> data # NoData

\* C5 as stated: RequireConfig returns its children iff (the isAdmin prop is
\* not set or the session is an admin) and (configID is empty or test of the
\* parsed value for configID is true); in every other case it returns the else
\* prop (null by default); test is not called when the admin check fails.
C5_ChildrenOrElse ==
    LET adminOK == ~props.isAdmin \/ session.isAdmin
        configOK == \/ props.configID = ""
                    \/ ~conf.threw /\ Test(props.test, Get(conf.data, props.configID))
    IN  /\ view.out = "children" <=> adminOK /\ configOK
        /\ ~(adminOK /\ configOK) =>
              view.out = IF props.else = "unset" THEN "null" ELSE props.else
        /\ ~adminOK => ~view.testCalled

\* C5, amended: unless the fetched config holds an entry with an unrecognized
\* type tag (then useConfig throws and RequireConfig returns nothing, its
\* checks not made), RequireConfig returns its children iff (the isAdmin prop
\* is not set or the session is an admin) and (configID is empty or test of the
\* parsed value for configID is true), and the else prop (null by default) in
\* every other case; test is not called when the admin check fails.
C5_ChildrenOrElseUnlessThrown ==
    LET adminOK == ~props.isAdmin \/ session.isAdmin
    IN  IF SomeUnrecognized
        THEN view.out = "threw" /\ ~view.testCalled
        ELSE LET configOK == \/ props.configID = ""
                             \/ Test(props.test, Get(conf.data, props.configID))
             IN  /\ view.out = "children" <=> adminOK /\ configOK
                 /\ ~(adminOK /\ configOK) =>
                       view.out = IF props.else = "unset" THEN "null" ELSE props.else
                 /\ ~adminOK => ~view.testCalled

\* A non-admin session met a RequireConfig that wants an admin, whose config
\* value would have passed the test.
C5_Witness ==
    /\ fetch = "done"
    /\ props.isAdmin /\ ~session.isAdmin /\ session.ready
    /\ props.configID = "A" /\ props.test = "default" /\ props.else = "unset"
    /\ ~conf.threw
    /\ Get(conf.data, "A") = Bool(TRUE)
    /\ view.out = "null"
    /\ ~view.testCalled

\* the raw string of e is one the default test passes
PassesDefault(e) ==
    CASE e.type = "boolean" -> e.value = TrueStr
      [] e.type = "integer" -> Base10(e.value) \notin {NaN, Num(0)}
      [] e.type = "string" -> e.value # <<>>
      [] e.type = "stringList" -> e.value # <<>>
      [] OTHER -> FALSE

\* the id is absent, or its value is boolean false, integer 0, an unparsable
\* integer, an empty string or an empty string list
FailsDefault(id) ==
    \/ id \notin FetchedIds
    \/ LastOf(id).type \in KnownTypes /\ ~PassesDefault(LastOf(id))

\* C10 as stated: with the default test and a non-empty configID, children
\* only if the fetched config holds an entry with that id whose parsed value is
\* boolean true, a non-zero integer, a non-empty string or a non-empty list; an
\* absent id, boolean false, integer 0, an unparsable integer, an empty string
\* and an empty string list all yield the else value.
C10_DefaultTest ==
    props.test = "default" /\ props.configID # "" =>
        /\ view.out = "children" =>
              /\ props.configID \in FetchedIds
              /\ PassesDefault(LastOf(props.configID))
        /\ FailsDefault(props.configID) =>
              view.out = IF props.else = "unset" THEN "null" ELSE props.else

\* C10, amended: as stated (the entry being the last fetched one with that
\* id), except that when some fetched entry has an unrecognized type tag
\* RequireConfig throws instead of yielding the else value.
C10_DefaultTestUnlessThrown ==
    props.test = "default" /\ props.configID # "" =>
        /\ view.out = "children" =>
              /\ props.configID \in FetchedIds
              /\ PassesDefault(LastOf(props.configID))
        /\ FailsDefault(props.configID) =>
              IF SomeUnrecognized THEN view.out = "threw"
              ELSE view.out = IF props.else = "unset" THEN "null" ELSE props.else

\* The id's value is an unparsable integer and the else node was returned.
C10_Witness ==
    /\ fetch = "done"
    /\ props.test = "default" /\ props.configID = "A" /\ props.else = "elseNode"
    /\ ~props.isAdmin
    /\ Len(Fetched) = 2
    /\ Fetched[1] = Entry("A", "boolean", TrueStr)
    /\ Fetched[2] = Entry("A", "integer", <<"e">>)
    /\ view.out = "elseNode"

----------------------------------------------------------------------------
\* What the claims about LinkToMobile speak of.

TurnsTrue(before, now) == before # "true" /\ now = "true"

\* C6: whenever the status result's claimed flag turns true the view index is
\* set to 1 (the verify-code view), whenever its verified flag turns true the
\* index is set to 2 (the success view), and when both turn true in the same
\* result the index ends at 2.
C6_ViewFollowsStatus ==
    [][/\ TurnsTrue(verified(qdata), verified(qdata')) =>
             (index' = 2 /\ slideRenderer(index') = "Success")
       /\ (TurnsTrue(claimed(qdata), claimed(qdata'))
             /\ ~TurnsTrue(verified(qdata), verified(qdata'))) =>
             (index' = 1 /\ slideRenderer(index') = "VerifyCodeFields")]_vars

\* The status result holds both flags and the dialog shows the success view.
C6_Witness ==
    /\ showDialog
    /\ qdata = Status(TRUE, TRUE)
    /\ index = 2

\* C7: the status query is never issued with an empty id: while the mutation
\* is loading without data, or no auth link id has been returned, the query is
\* skipped; when it is issued, its id is the id of the mutation result held.
C7_NeverIssuedWithoutId ==
    /\ mutation.loading /\ mutation.data.k = "undefined" => issued.skip
    /\ mutation.data.k # "link" => issued.skip
    /\ ~issued.skip =>
          /\ issued.id # ""
          /\ mutation.data.k = "link"
          /\ issued.id = mutation.data.id
    /\ qdata.k = "status" => ~issued.skip

\* The status query is out for the second auth link and has a result.
C7_Witness ==
    /\ calls = 2
    /\ ~issued.skip
    /\ issued.id = "k2"
    /\ qdata.k = "status"

\* C8: createAuthLink is invoked exactly once for each transition of the
\* dialog from closed to open and in no other step (not when the dialog closes,
\* the index changes, or a mutation or status result arrives).
C8_OneCallPerOpening ==
    [][calls' = calls + (IF ~showDialog /\ showDialog' THEN 1 ELSE 0)]_vars

\* The dialog was opened twice and is closed again.
C8_Witness ==
    /\ calls = 2
    /\ ~showDialog
    /\ mutation.data.k = "link"

\* C9: opening and closing the dialog leave the view index unchanged, so a
\* dialog closed at index i reopens at index i, though reopening creates a new
\* auth link.
C9_OpenCloseKeepIndex ==
    [][showDialog' # showDialog =>
          /\ index' = index
          /\ showDialog' => (calls' = calls + 1 /\ mutation'.loading)]_vars

\* The dialog was reopened at the success view while its new auth link is
\* being created.
C9_Witness ==
    /\ showDialog
    /\ index = 2
    /\ calls = 2
    /\ mutation.loading

====
